---- MODULE Spec2Model ----
(***************************************************************************)
(* url2mda: the Browser Durable Object (src/unnamed/part_002, the current  *)
(* src/index.ts) and the handlers it dispatches to.                        *)
(*                                                                         *)
(* The specifications of the module share its variables:                   *)
(*   Spec         the lifecycle of the orchestrator: inbound requests,     *)
(*                ensureBrowser, the keep-alive alarm, eviction;           *)
(*   SpecFair     Spec with the alarm and the handlers' steps scheduled;   *)
(*   SpecFanout   getWebsiteMarkdown: the per-identifier conversions of    *)
(*                one request after another against the KV cache;          *)
(*   SpecOverlap  the same conversions while other requests enter fetch;   *)
(*   SpecEntry    a request from the Worker to the response;               *)
(*   SpecRoute    the choice of strategy for an identifier;                *)
(*   SpecMagi     convertToMagiFormat;                                     *)
(*   SpecKey      the cache key of a generic page's conversion.            *)
(*                                                                         *)
(* Granularity.  A step runs one handler from one await to the next.       *)
(* Durable Object storage calls (get, put, getAlarm, setAlarm) are taken   *)
(* as atomic and reliable: the platform's input gate delivers no other     *)
(* event while one is pending.  Awaits on the browser, the KV cache, the   *)
(* rate limiter and the network are interleaving points.                   *)
(***************************************************************************)
EXTENDS Integers, Sequences, FiniteSets, TLC

\* ------------------------------------------------------------------ bounds
NReq == 2          \* requests that can be in flight at once
MaxInst == 2       \* browser instances that can exist at once
MaxKept == 40      \* an eviction reloads the idle counter only below this value

\* ------------------------------------------------------- program constants
Tick == 10                              \* alarm(): keptAliveInSeconds += 10
KEEP_BROWSER_ALIVE_IN_SECONDS == 30     \* ./constants (not among the sources)
MaxRetries == 3                         \* ensureBrowser(): let retries = 3

Req == 1..NReq
Inst == 1..MaxInst
None == 0

VARIABLES
  \* --- Browser (Durable Object) fields and storage
  browser,             \* this.browser: an instance, or None for undefined
  keptAliveInSeconds,  \* this.keptAliveInSeconds
  storedKeptAlive,     \* storage "keptAliveInSeconds"
  currentAlarm,        \* storage.getAlarm() is not null
  \* --- the rendering service
  sessions,            \* remote browser sessions that are running
  connected,           \* handles whose connection still answers
  \* --- the alarm handler's position
  alarmPc,             \* "idle" | "closing" (awaiting browser.close())
  closing,             \* the handle close() was called on
  \* --- each request's position in fetch()
  pc,                  \* "idle" | "probe" | "launch" | "cleanup" | "crawlPage"
                       \* | "convert" | "respond"
  kind,                \* "page" | "crawl"
  stage,               \* which ensureBrowser call: "fetch" | "gwm"
  retries,             \* ensureBrowser's local retries
  probed,              \* the handle version() was called on
  ensured,             \* ensureBrowser's last return value: "none" | "true" | "false"
  \* --- history of the run, read by the properties only
  launches,            \* launch attempts of the current ensureBrowser call
  crossed,             \* the alarm reached the threshold since the last reset
  closeCalls,          \* browser.close() calls by alarm() since the last reset
  heldAtCross,         \* a handle was held when the threshold was reached
  firedSince,          \* alarm firings since the counter was last reset or reloaded
  keptAtReset,         \* the counter's value at that reset or reload
  \* --- the KV namespace MDA_CACHE
  cache,               \* the entries stored: [key, md] records, one per key
  \* --- the request being converted (getWebsiteMarkdown and its callers)
  phase,               \* "idle" | "crawl" | "gwm" | "fanout" | "returned"
  target,              \* the url parameter as the client sent it
  noCache,             \* the nocache parameter
  llmFilter,           \* this.llmFilter
  token,               \* this.token: "backend" | "other"
  own,                 \* the token and the filter flag the request being
                       \* converted was sent with
  subpages,            \* the request is a crawl
  served,              \* requests received so far
  urls,                \* the urls getWebsiteMarkdown was called with
  tpc,                 \* each conversion's position in the map callback
  results,             \* each conversion's result object
  cacheKey,            \* each conversion's cacheKey, as the default branch built it
  returned,            \* what getWebsiteMarkdown returned
  \* --- history of the request, read by the properties only
  order,               \* the conversions in the order they completed
  src,                 \* where a result's markdown came from
  fail,                \* how a conversion failed, if it did
  apiLog,              \* the answers each conversion has got from the forum's
                       \* APIs while handleRedditURL runs, in the order of the calls
  preBypass,           \* keys whose entry was there when a bypass request
                       \* for their identifier arrived, and still is
  errCached,           \* keys whose entry was written by an attempt whose
                       \* result was then flagged as an error
  \* --- the Worker entry point and the responses
  secret,              \* env.BACKEND_SECURITY_TOKEN
  crawls,              \* requests with subpages=true that reached crawlSubpages
  method,              \* the method of the request the client sent
  auth,                \* its Authorization header
  ctype,               \* contentType of the request answered: "json" | "text"
  response,            \* the response handed to the client
  \* --- history of the request at the entry point, read by the properties only
  browserAsked,        \* fetch() called ensureBrowser for the request
  checked,             \* where RATELIMITER.limit was called: 0 for the
                       \* Worker's admission check, i for conversion i
  \* --- the pages the request opened in the browser
  pages,               \* page 0 is crawlSubpages', page i conversion i's: "none",
                       \* "open", or "closed" once close() was called on it
  \* --- an identifier being classified by the routing chain
  ident,               \* the identifier's string
  routed,              \* the strategy chosen for it, "none" before
  \* --- a markdown body being annotated by convertToMagiFormat
  markdown,            \* the markdown, as its blocks
  magi,                \* what was computed for the annotated document
  \* --- two generic-page conversions and their cache keys
  asked,               \* the url and this.llmFilter of each
  built                \* the cacheKey of each, <<>> before

doVars == <<browser, keptAliveInSeconds, storedKeptAlive, currentAlarm>>
svcVars == <<sessions, connected>>
alarmVars == <<alarmPc, closing>>
reqVars == <<pc, kind, stage, retries, probed, ensured, launches>>
histVars == <<crossed, closeCalls, heldAtCross, firedSince, keptAtReset>>
lifeVars == <<doVars, svcVars, alarmVars, reqVars, histVars>>
fanReqVars == <<phase, target, noCache, llmFilter, token, own, subpages, served, urls>>
taskVars == <<tpc, results, cacheKey, order, src, fail, apiLog>>
fanVars == <<cache, fanReqVars, taskVars, returned, preBypass, errCached>>
entryVars == <<secret, crawls, method, auth, ctype, response, browserAsked>>
routeVars == <<ident, routed>>
magiVars == <<markdown, magi>>
keyVars == <<asked, built>>
pureVars == <<routeVars, magiVars, keyVars>>
outsideLife == <<fanVars, entryVars, checked, pages, pureVars>>
outsideFan == <<lifeVars, entryVars, pureVars>>

vars == <<lifeVars, fanVars, entryVars, checked, pages, pureVars>>

\* ----------------------------------------------------------------- helpers

\* ensureAlarmIsSet(): set an alarm only when none is set
EnsureAlarmIsSet(alarm) == IF alarm = FALSE THEN TRUE ELSE alarm

\* fetch()'s finally block: this.keptAliveInSeconds = 0
FinallyKept(kept) == 0

\* fetch()'s finally block: reset the counter, then ensureAlarmIsSet()
Finally ==
  /\ keptAliveInSeconds' = FinallyKept(keptAliveInSeconds)
  /\ currentAlarm' = EnsureAlarmIsSet(currentAlarm)
  /\ crossed' = FALSE
  /\ closeCalls' = 0
  /\ heldAtCross' = FALSE
  /\ firedSince' = 0
  /\ keptAtReset' = FinallyKept(keptAliveInSeconds)

NoFinally ==
  UNCHANGED <<keptAliveInSeconds, currentAlarm, histVars>>

\* ensureBrowser()'s loop head, reading this.browser = b:
\* no handle -> puppeteer.launch is called; a handle -> version() is called on it
LoopHead(b) == IF b = None THEN "launch" ELSE "probe"

\* the retry budget of one ensureBrowser call: let retries = 3
RetryBudget == MaxRetries

\* after a failed launch, retries-- and `if (!retries) return false`
GiveUp(left) == left = 0

\* ensureBrowser() is entered at call site st by request r, this.browser being b
EnterEnsure(r, st, b) ==
  /\ stage' = [stage EXCEPT ![r] = st]
  /\ retries' = [retries EXCEPT ![r] = RetryBudget]
  /\ probed' = [probed EXCEPT ![r] = b]
  /\ launches' = [launches EXCEPT ![r] = IF b = None THEN 1 ELSE 0]
  /\ pc' = [pc EXCEPT ![r] = LoopHead(b)]

\* ensureBrowser() returns ok to request r, this.browser being b after the step.
\* In fetch(): false -> 500; true -> processSinglePage/crawlSubpages run up to
\* their first await and, their promise being returned without await, the
\* finally block runs at once.  In getWebsiteMarkdown(): false -> every
\* identifier gets the browser error result; true -> the fan-out starts.
EnsureReturn(r, ok, b) ==
  /\ ensured' = [ensured EXCEPT ![r] = IF ok THEN "true" ELSE "false"]
  /\ IF stage[r] = "fetch"
       THEN /\ Finally
            /\ IF ok /\ kind[r] = "page"
                 THEN \* processSinglePage -> getWebsiteMarkdown -> ensureBrowser
                      EnterEnsure(r, "gwm", b)
                 ELSE \* 500, or crawlSubpages: if (!this.browser) throw; newPage()
                      /\ pc' = [pc EXCEPT ![r] =
                                  IF ok /\ b # None THEN "crawlPage" ELSE "respond"]
                      /\ UNCHANGED <<stage, retries, probed, launches>>
       ELSE /\ NoFinally
            /\ pc' = [pc EXCEPT ![r] = IF ok THEN "convert" ELSE "respond"]
            /\ UNCHANGED <<stage, retries, probed, launches>>

\* ----------------------------------------------------------------- actions

\* fetch(): a request is delivered.  rejected = 405, help page or 400: the
\* handler returns before ensureBrowser and the finally block runs.
Arrive(r) ==
  /\ UNCHANGED outsideLife
  /\ pc[r] = "idle"
  /\ \E k \in {"rejected", "page", "crawl"} :
       IF k = "rejected"
         THEN /\ Finally
              /\ UNCHANGED reqVars
         ELSE /\ kind' = [kind EXCEPT ![r] = k]
              /\ EnterEnsure(r, "fetch", browser)
              /\ NoFinally
              /\ UNCHANGED ensured
  /\ UNCHANGED <<browser, storedKeptAlive, svcVars, alarmVars>>

\* isBrowserConnected(): version() answers, ensureBrowser returns true
ProbePass(r) ==
  /\ UNCHANGED outsideLife
  /\ pc[r] = "probe"
  /\ probed[r] \in connected
  /\ EnsureReturn(r, TRUE, browser)
  /\ UNCHANGED <<browser, storedKeptAlive, svcVars, alarmVars, kind>>

\* isBrowserConnected(): version() throws, ensureBrowser calls puppeteer.launch
ProbeFail(r) ==
  /\ UNCHANGED outsideLife
  /\ pc[r] = "probe"
  /\ pc' = [pc EXCEPT ![r] = "launch"]
  /\ launches' = [launches EXCEPT ![r] = @ + 1]
  /\ NoFinally
  /\ UNCHANGED <<browser, storedKeptAlive, svcVars, alarmVars,
                 kind, stage, retries, probed, ensured>>

\* instance names no handle or session uses
FreshInst ==
  Inst \ (sessions \cup connected \cup {browser, closing} \cup {probed[q] : q \in Req})

\* puppeteer.launch resolves: this.browser = the new instance, return true
LaunchOk(r) ==
  /\ UNCHANGED outsideLife
  /\ pc[r] = "launch"
  /\ FreshInst # {}
  /\ LET i == CHOOSE x \in FreshInst : \A y \in FreshInst : x <= y IN
       /\ browser' = i
       /\ sessions' = sessions \cup {i}
       /\ connected' = connected \cup {i}
       /\ EnsureReturn(r, TRUE, i)
  /\ UNCHANGED <<storedKeptAlive, alarmVars, kind>>

\* puppeteer.launch rejects: retries--, return false when none is left,
\* otherwise go on to clean up the sessions
LaunchFail(r) ==
  /\ UNCHANGED outsideLife
  /\ pc[r] = "launch"
  /\ LET left == retries[r] - 1 IN
       IF GiveUp(left)
         THEN EnsureReturn(r, FALSE, browser)
         ELSE /\ retries' = [retries EXCEPT ![r] = left]
              /\ pc' = [pc EXCEPT ![r] = "cleanup"]
              /\ NoFinally
              /\ UNCHANGED <<stage, probed, ensured, launches>>
  /\ UNCHANGED <<browser, storedKeptAlive, svcVars, alarmVars, kind>>

\* the best-effort session clean-up after a failed launch: puppeteer.sessions,
\* then connect and close each one, any of which may fail; then the loop head
Cleanup(r) ==
  /\ UNCHANGED outsideLife
  /\ pc[r] = "cleanup"
  /\ \E left \in SUBSET sessions :
       /\ sessions' = left
       /\ connected' = connected \cap left
  /\ pc' = [pc EXCEPT ![r] = LoopHead(browser)]
  /\ probed' = [probed EXCEPT ![r] = browser]
  /\ launches' = [launches EXCEPT ![r] = IF browser = None THEN @ + 1 ELSE @]
  /\ NoFinally
  /\ UNCHANGED <<browser, storedKeptAlive, alarmVars, kind, stage, retries, ensured>>

\* crawlSubpages(): newPage, goto, extractLinks, close; then getWebsiteMarkdown
\* enters ensureBrowser.  Any of them throwing ends the request with 500.
CrawlPage(r) ==
  /\ UNCHANGED outsideLife
  /\ pc[r] = "crawlPage"
  /\ \E ok \in BOOLEAN :
       IF ok THEN EnterEnsure(r, "gwm", browser)
             ELSE /\ pc' = [pc EXCEPT ![r] = "respond"]
                  /\ UNCHANGED <<stage, retries, probed, launches>>
  /\ NoFinally
  /\ UNCHANGED <<browser, storedKeptAlive, svcVars, alarmVars, kind, ensured>>

\* the conversions of the request finish
Convert(r) ==
  /\ UNCHANGED outsideLife
  /\ pc[r] = "convert"
  /\ pc' = [pc EXCEPT ![r] = "respond"]
  /\ NoFinally
  /\ UNCHANGED <<browser, storedKeptAlive, svcVars, alarmVars,
                 kind, stage, retries, probed, ensured, launches>>

\* the response is handed back and the request's locals are gone
Respond(r) ==
  /\ UNCHANGED outsideLife
  /\ pc[r] = "respond"
  /\ pc' = [pc EXCEPT ![r] = "idle"]
  /\ kind' = [kind EXCEPT ![r] = "page"]
  /\ stage' = [stage EXCEPT ![r] = "fetch"]
  /\ retries' = [retries EXCEPT ![r] = RetryBudget]
  /\ probed' = [probed EXCEPT ![r] = None]
  /\ ensured' = [ensured EXCEPT ![r] = "none"]
  /\ launches' = [launches EXCEPT ![r] = 0]
  /\ NoFinally
  /\ UNCHANGED <<browser, storedKeptAlive, svcVars, alarmVars>>

\* alarm(): the counter after one firing
AlarmTickTwice(kept) == kept + Tick + Tick

AlarmTick(kept) == kept + Tick

\* alarm(): below the threshold the alarm is set again
KeepAliveInclusive(kept) == kept <= KEEP_BROWSER_ALIVE_IN_SECONDS

KeepAlive(kept) == kept < KEEP_BROWSER_ALIVE_IN_SECONDS

\* alarm(): storage.put("keptAliveInSeconds", this.keptAliveInSeconds)
PersistKept(kept) == kept

\* alarm(), up to its end or to `await this.browser.close()`
AlarmFire ==
  /\ UNCHANGED outsideLife
  /\ currentAlarm
  /\ alarmPc = "idle"
  /\ LET kept == AlarmTick(keptAliveInSeconds)
         reached == kept >= KEEP_BROWSER_ALIVE_IN_SECONDS
     IN
       /\ keptAliveInSeconds' = kept
       /\ firedSince' = firedSince + 1
       /\ crossed' = (crossed \/ reached)
       /\ heldAtCross' = IF reached THEN browser # None ELSE heldAtCross
       /\ UNCHANGED keptAtReset
       /\ IF KeepAlive(kept)
            THEN /\ currentAlarm' = TRUE
                 /\ storedKeptAlive' = PersistKept(kept)
                 /\ UNCHANGED <<alarmVars, closeCalls>>
            ELSE /\ currentAlarm' = FALSE
                 /\ IF browser # None
                      THEN /\ alarmPc' = "closing"
                           /\ closing' = browser
                           /\ closeCalls' = closeCalls + 1
                           /\ UNCHANGED storedKeptAlive
                      ELSE /\ storedKeptAlive' = PersistKept(kept)
                           /\ UNCHANGED <<alarmVars, closeCalls>>
  /\ UNCHANGED <<browser, svcVars, reqVars>>

\* alarm(): the handle after the close attempt: this.browser = undefined
AfterClose(b) == None

\* alarm(), from the return of browser.close() (resolved, or rejected and
\* caught) to its end.  After the attempt the handle no longer answers; a
\* rejected close may leave the remote session running.
AlarmFinish ==
  /\ UNCHANGED outsideLife
  /\ alarmPc = "closing"
  /\ \E closed \in BOOLEAN :
       sessions' = IF closed THEN sessions \ {closing} ELSE sessions
  /\ connected' = connected \ {closing}
  /\ browser' = AfterClose(browser)
  /\ storedKeptAlive' = PersistKept(keptAliveInSeconds)
  /\ alarmPc' = "idle"
  /\ closing' = None
  /\ UNCHANGED <<keptAliveInSeconds, currentAlarm, reqVars, histVars>>

\* constructor(): the counter reloaded from storage, `stored || 0`
Reload(stored) == stored

\* The object is evicted while nothing runs and constructed again: the fields
\* are fresh, the counter is reloaded, the remote sessions are left behind.
Evict ==
  /\ UNCHANGED outsideLife
  /\ \A r \in Req : pc[r] = "idle"
  /\ alarmPc = "idle"
  /\ storedKeptAlive < MaxKept
  /\ browser' = None
  /\ connected' = {}
  /\ keptAliveInSeconds' = Reload(storedKeptAlive)
  /\ firedSince' = 0
  /\ keptAtReset' = Reload(storedKeptAlive)
  /\ UNCHANGED <<storedKeptAlive, currentAlarm, sessions, alarmVars, reqVars,
                 crossed, closeCalls, heldAtCross>>

\* ------------------------------------------------------------ specification

LifeInit ==
  /\ browser = None
  /\ keptAliveInSeconds = 0
  /\ storedKeptAlive = 0
  /\ currentAlarm = FALSE
  /\ sessions = {}
  /\ connected = {}
  /\ alarmPc = "idle"
  /\ closing = None
  /\ pc = [r \in Req |-> "idle"]
  /\ kind = [r \in Req |-> "page"]
  /\ stage = [r \in Req |-> "fetch"]
  /\ retries = [r \in Req |-> RetryBudget]
  /\ probed = [r \in Req |-> None]
  /\ ensured = [r \in Req |-> "none"]
  /\ launches = [r \in Req |-> 0]
  /\ crossed = FALSE
  /\ closeCalls = 0
  /\ heldAtCross = FALSE
  /\ firedSince = 0
  /\ keptAtReset = 0

Next ==
  \/ \E r \in Req : Arrive(r)
  \/ \E r \in Req : ProbePass(r)
  \/ \E r \in Req : ProbeFail(r)
  \/ \E r \in Req : LaunchOk(r)
  \/ \E r \in Req : LaunchFail(r)
  \/ \E r \in Req : Cleanup(r)
  \/ \E r \in Req : CrawlPage(r)
  \/ \E r \in Req : Convert(r)
  \/ \E r \in Req : Respond(r)
  \/ AlarmFire
  \/ AlarmFinish
  \/ Evict

\* ---------------------------------------------------------------- fan-out
\* bound
MaxLinks == 1      \* hrefs found on a crawled page
MaxServed == 2     \* requests received in a run

\* crawlSubpages(): slice(0, 10)
SubpageLimit == 10

\* wrangler.toml: the KV namespaces bound to the worker
KVBindings == {"MDA_CACHE"}

\* env.BACKEND_SECURITY_TOKEN
BACKEND_SECURITY_TOKEN == secret

\* Identifiers.  site "page" stands for a generic page, "reddit" for
\* https://www.reddit.com/r/<sub>, "x" for https://x.com and "video" for a
\* youtube.com/watch url; path "a" is a page below the site's root; nocache
\* says the string contains "nocache=true".
Sites == {"page", "reddit", "x", "video"}
Url == [site : Sites, path : {"", "a"}, nocache : BOOLEAN]
NoUrl == [site |-> "", path |-> "", nocache |-> FALSE]
Seeds == {u \in Url : u.path = "" /\ ~u.nocache}

\* the hrefs a page can carry: itself, the generic site's root and subpage
Hrefs(base) ==
  {base, [site |-> "page", path |-> "", nocache |-> FALSE],
         [site |-> "page", path |-> "a", nocache |-> FALSE]}


\* getWebsiteMarkdown(): searchParams.has('nocache') || url.includes('nocache=true')
ShouldSkipCache(u) == u.nocache

\* Identifier strings, as far as routing reads them: a sequence of pieces, the
\* first being the origin and each of the others a "/", a "?", a digit "1",
\* a letter "a", or one of the substrings the routing chain looks for.
Origin(site) ==
  CASE site = "video" -> "https://www.youtube.com/watch"
    [] site = "x" -> "https://x.com"
    [] site = "reddit" -> "https://www.reddit.com/r/sub"
    [] site = "malformed" -> "http://["
    [] site = "rejected" -> "example.com"
    [] OTHER -> "https://example.com"

\* the string of an identifier; with nocache it is URL.toString() of the
\* identifier after searchParams.set('nocache', 'true'), which writes the
\* root path as "/"
Text(u) ==
  <<Origin(u.site)>>
    \o (IF u.path # "" THEN <<"/", u.path>> ELSE IF u.nocache THEN <<"/">> ELSE <<>>)
    \o (IF u.nocache THEN <<"?", "nocache=true">> ELSE <<>>)

\* new URL(url) returns: the string is an absolute URL the parser accepts
ParsesAsUrl(s) ==
  s[1] \in {"https://www.youtube.com/watch", "https://x.com", "https://twitter.com",
            "https://www.reddit.com/r/sub", "https://example.com"}

\* isValidUrl(): /^(http|https):\/\/[^ " ]+$/.test(url)
IsValidUrl(s) ==
  /\ s[1] \in {"https://www.youtube.com/watch", "https://x.com", "https://twitter.com",
               "https://www.reddit.com/r/sub", "https://example.com", "http://["}
  /\ \A i \in 1..Len(s) : s[i] \notin {" ", "\""}

\* fetch(): urlObj.searchParams.set('nocache', 'true'); new URL throwing
\* leaves the url as it was
WithNocache(u) == IF ParsesAsUrl(Text(u)) THEN [u EXCEPT !.nocache = TRUE] ELSE u

\* url.includes('youtube.com/watch') || url.includes('youtu.be/')
IncludesVideo(s) ==
  \E i \in 1..Len(s) : s[i] \in {"https://www.youtube.com/watch", "youtube.com/watch"}

\* url.startsWith('https://x.com') || url.startsWith('https://twitter.com')
StartsWithSocial(s) == s[1] \in {"https://x.com", "https://twitter.com"}

\* url.includes('reddit.com/r/')
IncludesForum(s) == \E i \in 1..Len(s) : s[i] = "https://www.reddit.com/r/sub"

\* the positions of the "/" pieces after a social origin
SlashAt(s) == {i \in 2..Len(s) : s[i] = "/"}

\* url.split('/').length: "https:", "", the host, and one part per later "/"
UrlPartsLength(s) == 3 + Cardinality(SlashAt(s))

\* urlParts[urlParts.length - 1]
LastPart(s) ==
  IF SlashAt(s) = {} THEN s
  ELSE SubSeq(s, (CHOOSE i \in SlashAt(s) : \A j \in SlashAt(s) : j <= i) + 1, Len(s))

\* lastPart.split('?')[0]
BeforeQuery(p) ==
  IF \E i \in 1..Len(p) : p[i] = "?"
    THEN SubSeq(p, 1, (CHOOSE i \in 1..Len(p) : p[i] = "?" /\ \A j \in 1..(i - 1) : p[j] # "?") - 1)
    ELSE p

\* /^[0-9]+$/.test(...)
AllDigits(p) == Len(p) > 0 /\ \A i \in 1..Len(p) : p[i] = "1"

IsLikelyStatus(s) == AllDigits(BeforeQuery(LastPart(s)))

\* getWebsiteMarkdown(): the routing chain, on the identifier's string
RouteString(s) ==
  IF IncludesVideo(s) THEN "youtube"
  ELSE IF StartsWithSocial(s)
         THEN IF ~IsLikelyStatus(s) /\ UrlPartsLength(s) > 3 THEN "twitterProfile"
              ELSE IF IsLikelyStatus(s) THEN "twitterTweet"
              ELSE "twitterDefault"
  ELSE IF IncludesForum(s) THEN "reddit"
  ELSE "default"

\* getWebsiteMarkdown(): the routing chain
Route(u) == RouteString(Text(u))

\* Markdown bodies: what the text is and the url it was made from.
\*   "doc"          markdown of a page        "docF"     its LLM-filtered form
\*   "docFF"        the LLM-filtered form of an LLM-filtered form
\*   "empty"        the empty string, as Turndown makes of a page without text
\*   "sentinel"     "## Error\n\nFailed ..."  "timeout"  "## Error: Navigation Timeout ..."
\*   "listing"      a formatted subreddit listing of more than 100 characters
\*   "listingLimit" such a listing with "limit", "Error" or "failed" in a title
\*   "pubfail"      "Failed to fetch from Reddit Public API: <status>"
\*   "authfail"     "Failed to authenticate with Reddit: <status>"
\*   "authlimited"  "Failed to fetch from Reddit API (authenticated): 429 - ..."
\*   "authexpired"  "Reddit authentication failed. Token may have expired."
\*   "token"        an OAuth access token
\*   "ratelimited"  "Rate limit exceeded"
\*   "unexpected"   "Failed to process page due to unexpected error"
\*   "nobrowser"    "[Browser] Could not start browser instance"
Md(text, u) == [text |-> text, of |-> u]
Null == Md("null", NoUrl)

StartsWithError(md) == md.text \in {"sentinel", "timeout"}
IncludesTimeout(md) == md.text = "timeout"
LongerThan100(md) == md.text \in {"listing", "listingLimit"}
HasErrorIndicators(md) ==
  md.text \in {"listingLimit", "pubfail", "authfail", "authlimited", "authexpired", "sentinel", "timeout",
               "unexpected"}

\* applyLlmFilter(): the model's answer
ApplyLlmFilter(md) ==
  [md EXCEPT !.text = IF @ \in {"docF", "docFF"} THEN "docFF" ELSE "docF"]

Key == [ns : {"Default", "Reddit", "Reddit:OAuthToken"}, url : Url, llm : BOOLEAN]

\* `Default:${url}${llmFilter ? '-llm' : ''}`, for the urls of Url: none of
\* them ends in '-llm', so that the string is given by the url and the flag
DefaultKey(u, llm) == [ns |-> "Default", url |-> u, llm |-> llm]

\* `Reddit:${url}`
RedditKey(u) == [ns |-> "Reddit", url |-> u, llm |-> FALSE]

\* const tokenCacheKey = "Reddit:OAuthToken"
TokenKey == [ns |-> "Reddit:OAuthToken", url |-> NoUrl, llm |-> FALSE]

\* MDA_CACHE.get(key): the stored markdown, or Null
CacheGet(entries, k) ==
  IF \E e \in entries : e.key = k
    THEN (CHOOSE e \in entries : e.key = k).md
    ELSE Null

\* if (cachedData), if (cached): null and the empty string are falsy
CacheHit(v) == v # Null /\ v.text # "empty"

Result(u, md, err, st) == [url |-> u, md |-> md, error |-> err, status |-> st]
NoResult == Result(NoUrl, Null, FALSE, 0)

Tasks == 1..(MaxLinks + 1)

\* the map callback's catch
Caught(u) == Result(u, Md("unexpected", NoUrl), TRUE, 500)

InCompletionOrder(res, ord) == [i \in 1..Len(ord) |-> res[ord[i]]]

\* Promise.all(urls.map(...)): slot i holds the result of urls[i]
PromiseAll(res, ord) == [i \in 1..Len(ord) |-> res[i]]

\* Array.from(new Set(links))
RECURSIVE Unique(_)
Unique(s) ==
  IF Len(s) = 0 THEN <<>>
  ELSE LET init == Unique(SubSeq(s, 1, Len(s) - 1))
           last == s[Len(s)]
       IN IF \E j \in 1..Len(init) : init[j] = last THEN init ELSE Append(init, last)

\* .slice(0, n)
Slice(s, n) == SubSeq(s, 1, IF Len(s) < n THEN Len(s) ELSE n)

\* extractLinks(): href.startsWith(base + '/') || href === base
KeptLink(u, base) ==
  \/ u = base
  \/ ~base.nocache /\ base.path = "" /\ u.site = base.site /\ u.path # ""

ExtractLinks(hrefs, base) == SelectSeq(hrefs, LAMBDA u : KeptLink(u, base))

\* a conversion returns: its slot is filled
Done(i, res, from, how) ==
  /\ results' = [results EXCEPT ![i] = res]
  /\ tpc' = [tpc EXCEPT ![i] = "done"]
  /\ order' = Append(order, i)
  /\ src' = [src EXCEPT ![i] = from]
  /\ fail' = [fail EXCEPT ![i] = how]

\* a conversion moves on to its next await
Goto(i, to) ==
  /\ tpc' = [tpc EXCEPT ![i] = to]
  /\ UNCHANGED <<results, order, src, fail>>

\* MDA_CACHE.put(key, md)
CachePut(k, md, flagged) ==
  /\ cache' = {e \in cache : e.key # k} \cup {[key |-> k, md |-> md]}
  /\ preBypass' = preBypass \ {k}
  /\ errCached' = IF flagged THEN errCached \cup {k} ELSE errCached \ {k}

\* MDA_CACHE.delete(key), or the entry's expirationTtl running out
CacheDrop(k) ==
  /\ cache' = {e \in cache : e.key # k}
  /\ preBypass' = preBypass \ {k}
  /\ errCached' = errCached \ {k}

CacheSame == UNCHANGED <<cache, preBypass, errCached>>

\* where a cache read's content stands with respect to the last bypass
ReadFrom(k) == IF k \in preBypass THEN "stale" ELSE "cache"

\* no request is being converted
NoOwn == [token |-> "", llmFilter |-> FALSE]

\* fetch(): the parameters are read, the url gets nocache appended, and
\* processSinglePage or crawlSubpages is called with it
Admit(u, nc, llm, sub, tok) ==
  /\ target' = u
  /\ noCache' = nc
  /\ llmFilter' = llm
  /\ subpages' = sub
  /\ token' = tok
  /\ own' = [token |-> tok, llmFilter |-> llm]
  /\ urls' = <<IF nc THEN WithNocache(u) ELSE u>>
  /\ phase' = IF sub THEN "crawl" ELSE "gwm"
  /\ preBypass' = IF nc
                    THEN preBypass \cup
                           {k \in {DefaultKey(u, llm), RedditKey(u)} : CacheGet(cache, k) # Null}
                    ELSE preBypass

\* fetch(), from the parameters to the call of processSinglePage or crawlSubpages
FanArrive ==
  /\ phase = "idle"
  /\ served < MaxServed
  /\ served' = served + 1
  /\ \E u \in Seeds, nc \in BOOLEAN, llm \in BOOLEAN, sub \in BOOLEAN,
        tok \in {"backend", "other"} :
       Admit(u, nc, llm, sub, tok)
  /\ UNCHANGED <<cache, errCached, taskVars, returned, checked, pages, outsideFan>>

\* no page opened
NoPages == [i \in 0..(MaxLinks + 1) |-> "none"]

ClosePageSkipped(pgs, i) == pgs

\* the finally blocks: if (page) { try { await page.close() } catch { log } }
\* close() is called; whether it resolves or rejects makes no difference to
\* what the handler does next
ClosePage(pgs, i) ==
  IF pgs[i] = "open" THEN [pgs EXCEPT ![i] = "closed"] ELSE pgs

\* crawlSubpages(): page = await this.browser.newPage() resolves
CrawlOpen ==
  /\ phase = "crawl"
  /\ phase' = "crawlPage"
  /\ pages' = [pages EXCEPT ![0] = "open"]
  /\ UNCHANGED <<target, noCache, llmFilter, token, own, subpages, served, urls,
                 cache, preBypass, errCached, taskVars, returned, checked, outsideFan>>

\* crawlSubpages(), from newPage to the call of getWebsiteMarkdown: goto,
\* extractLinks, page.close()
CrawlLinks ==
  /\ phase = "crawlPage"
  /\ LET base == urls[1]
     IN \E n \in 0..MaxLinks : \E hrefs \in [1..n -> Hrefs(base)] :
          urls' = <<base>> \o Slice(Unique(ExtractLinks(hrefs, base)), SubpageLimit)
  /\ pages' = ClosePage(pages, 0)
  /\ phase' = "gwm"
  /\ UNCHANGED <<target, noCache, llmFilter, token, own, subpages, served,
                 cache, preBypass, errCached, taskVars, returned, checked, outsideFan>>

\* the request is answered: its locals are dropped
EndRequest ==
  /\ phase' = "idle"
  /\ target' = NoUrl
  /\ noCache' = FALSE
  /\ llmFilter' = FALSE
  /\ token' = ""
  /\ own' = NoOwn
  /\ subpages' = FALSE
  /\ UNCHANGED served
  /\ urls' = <<>>
  /\ tpc' = [i \in Tasks |-> "none"]
  /\ results' = [i \in Tasks |-> NoResult]
  /\ cacheKey' = [i \in Tasks |-> DefaultKey(NoUrl, FALSE)]
  /\ apiLog' = [i \in Tasks |-> <<>>]
  /\ order' = <<>>
  /\ src' = [i \in Tasks |-> "none"]
  /\ fail' = [i \in Tasks |-> "no"]
  /\ returned' = <<>>
  /\ checked' = {}
  /\ pages' = NoPages

\* crawlSubpages(): newPage or goto throws, the catch answers 500
CrawlFail ==
  /\ phase \in {"crawl", "crawlPage"}
  /\ EndRequest
  /\ CacheSame
  /\ UNCHANGED outsideFan

\* getWebsiteMarkdown(): ensureBrowser, then the map starts every callback
GwmEnsure ==
  /\ phase = "gwm"
  /\ \E isBrowserActive \in BOOLEAN :
       IF isBrowserActive
         THEN /\ phase' = "fanout"
              /\ tpc' = [i \in Tasks |-> IF i <= Len(urls) THEN "start" ELSE "none"]
              /\ UNCHANGED <<results, cacheKey, order, src, fail, apiLog, returned>>
         ELSE /\ phase' = "returned"
              /\ returned' = [i \in 1..Len(urls) |->
                                Result(urls[i], Md("nobrowser", NoUrl), TRUE, 500)]
              /\ UNCHANGED taskVars
  /\ CacheSame
  /\ UNCHANGED <<target, noCache, llmFilter, token, own, subpages, served, urls,
                 checked, pages, outsideFan>>

InFanout(i, at) == phase = "fanout" /\ i <= Len(urls) /\ tpc[i] = at

\* what a step of a conversion leaves alone, but for the conversions' own
\* variables, the limiter's calls and the pages
StepFrame == UNCHANGED <<fanReqVars, returned, outsideFan>>

RequestFrame == StepFrame /\ UNCHANGED <<cacheKey, apiLog>>

Frame == RequestFrame /\ UNCHANGED <<checked, pages>>

RateLimitedAsFailure(u) == Result(u, Md("unexpected", NoUrl), TRUE, 500)

\* { url, md: 'Rate limit exceeded', error: true, status: 429 }
RateLimited(u) == Result(u, Md("ratelimited", NoUrl), TRUE, 429)

\* the map callback: the rate limiter
RateLimit(i) ==
  /\ InFanout(i, "start")
  /\ IF token # BACKEND_SECURITY_TOKEN
       THEN /\ checked' = checked \cup {i}
            /\ \E success \in BOOLEAN :
                 IF success
                   THEN Goto(i, "route")
                   ELSE Done(i, RateLimited(urls[i]), "none", "limited")
       ELSE /\ Goto(i, "route")
            /\ UNCHANGED checked
  /\ CacheSame
  /\ RequestFrame
  /\ UNCHANGED pages

\* getYouTubeMetadata(): env.MD_CACHE.get, outside any try
YouTube(i) ==
  /\ InFanout(i, "route")
  /\ Route(urls[i]) = "youtube"
  /\ "MD_CACHE" \notin KVBindings
  /\ Done(i, Caught(urls[i]), "none", "threw")
  /\ CacheSame
  /\ Frame

\* handleTwitterProfilePage(): env.MD_CACHE.get, outside any try
TwitterProfile(i) ==
  /\ InFanout(i, "route")
  /\ Route(urls[i]) = "twitterProfile"
  /\ "MD_CACHE" \notin KVBindings
  /\ Done(i, Caught(urls[i]), "none", "threw")
  /\ CacheSame
  /\ Frame

\* handleDefaultPage(), up to `page = await browser.newPage()`: the page is
\* open, or newPage throws and the catch returns the sentinel
NewPage(i, opens, to, failed) ==
  IF opens
    THEN pages' = [pages EXCEPT ![i] = "open"] /\ Goto(i, to)
    ELSE UNCHANGED pages /\ failed

\* the Twitter branch's fallback, up to newPage
TwitterDefault(i) ==
  /\ InFanout(i, "route")
  /\ Route(urls[i]) = "twitterDefault"
  /\ \E opens \in BOOLEAN :
       NewPage(i, opens, "fallback",
               Done(i, Result(urls[i], Md("sentinel", urls[i]), FALSE, 0), "strategy", "sentinel"))
  /\ CacheSame
  /\ RequestFrame
  /\ UNCHANGED checked

\* the Twitter branch's fallback, from newPage to the result:
\* { url, md: await handleDefaultPage(...), error: false }
TwitterFallback(i) ==
  /\ InFanout(i, "fallback")
  /\ \E text \in {"doc", "sentinel", "timeout"} :
       LET md == Md(text, urls[i])
       IN /\ pages' = ClosePage(pages, i)
          /\ Done(i, Result(urls[i], md, FALSE, 0), "strategy",
                  IF StartsWithError(md) THEN "sentinel" ELSE "no")
  /\ CacheSame
  /\ RequestFrame
  /\ UNCHANGED checked

\* handleRedditURL(): the cache read
RedditCache(i) ==
  /\ InFanout(i, "route")
  /\ Route(urls[i]) = "reddit"
  /\ LET k == RedditKey(urls[i])
     IN IF CacheHit(CacheGet(cache, k))
          THEN Done(i, Result(urls[i], CacheGet(cache, k), FALSE, 0), ReadFrom(k), "no")
          ELSE Goto(i, "redditPublic")
  /\ CacheSame
  /\ Frame

IsRateLimitedOrFailed(status, remaining, wording) == status # 200

\* fetchRedditPublicApi(): resp.status === 429 or the x-ratelimit-remaining
\* header is "0"; or the response is not OK and its body includes
\* "rate limit" or "ratelimit"
IsRateLimited(status, remaining, wording) ==
  \/ status = 429
  \/ remaining = "0"
  \/ status # 200 /\ wording

\* what the public API answers: the status, the x-ratelimit-remaining
\* header, and whether the body has the rate-limit wording
PublicAnswers ==
  {[api |-> "public", status |-> a[1], remaining |-> a[2], wording |-> a[3]] :
     a \in {<<200, "9", FALSE>>, <<200, "0", FALSE>>, <<429, "9", FALSE>>,
            <<403, "9", TRUE>>, <<403, "9", FALSE>>}}

\* a call of one of the forum's APIs is answered and the handler goes on
Logged(i, answer) == apiLog' = [apiLog EXCEPT ![i] = Append(@, answer)]

\* handleRedditURL() returns: its locals are gone
Returned(i) == apiLog' = [apiLog EXCEPT ![i] = <<>>]

\* handleRedditURL(): fetchRedditPublicApi and what is done with its answer
RedditPublic(i) ==
  /\ InFanout(i, "redditPublic")
  /\ \E answer \in PublicAnswers :
       IF IsRateLimited(answer.status, answer.remaining, answer.wording)
         THEN Logged(i, answer) /\ Goto(i, "redditAuth") /\ CacheSame
         ELSE \E text \in (IF answer.status = 200 THEN {"listing", "pubfail"}
                                                   ELSE {"pubfail"}) :
                LET md == Md(text, urls[i])
                IN /\ IF LongerThan100(md)
                        THEN CachePut(RedditKey(urls[i]), md, FALSE)
                        ELSE CacheSame
                   /\ Returned(i)
                   /\ Done(i, Result(urls[i], md, FALSE, 0), "strategy", "no")
  /\ StepFrame
  /\ UNCHANGED <<cacheKey, checked, pages>>

\* fetchRedditAuthenticatedApi(), up to the authenticated request: the cached
\* token, or a token requested and cached; a refused token request ends the
\* conversion
RedditToken(i) ==
  /\ InFanout(i, "redditAuth")
  /\ IF CacheHit(CacheGet(cache, TokenKey))
       THEN Goto(i, "redditApi") /\ CacheSame /\ UNCHANGED apiLog
       ELSE \E granted \in BOOLEAN :
              IF granted
                THEN /\ UNCHANGED apiLog
                     /\ CachePut(TokenKey, Md("token", NoUrl), FALSE)
                     /\ Goto(i, "redditApi")
                ELSE LET md == Md("authfail", urls[i])
                     IN /\ Returned(i)
                        /\ CacheDrop(TokenKey)
                        /\ Done(i, Result(urls[i], md, HasErrorIndicators(md), 0),
                                "strategy", "no")
  /\ StepFrame
  /\ UNCHANGED <<cacheKey, checked, pages>>

\* fetchRedditAuthenticatedApi(), the authenticated request, and
\* hasErrorIndicators: 401 deletes the cached token and returns a message
RedditAuth(i) ==
  /\ InFanout(i, "redditApi")
  /\ \E status \in {200, 401, 429} :
       \E text \in (CASE status = 200 -> {"listing", "listingLimit"}
                      [] status = 401 -> {"authexpired"}
                      [] OTHER -> {"authlimited"}) :
         LET md == Md(text, urls[i])
             hasErrorIndicators == HasErrorIndicators(md)
         IN /\ IF status = 401 THEN CacheDrop(TokenKey)
               ELSE IF LongerThan100(md)
                 THEN CachePut(RedditKey(urls[i]), md, hasErrorIndicators)
                 ELSE CacheSame
            /\ Returned(i)
            /\ Done(i, Result(urls[i], md, hasErrorIndicators, 0), "strategy", "no")
  /\ StepFrame
  /\ UNCHANGED <<cacheKey, checked, pages>>

\* the default branch: delete on nocache, else the cache read
DefaultCache(i) ==
  /\ InFanout(i, "route")
  /\ Route(urls[i]) = "default"
  /\ LET k == DefaultKey(urls[i], llmFilter)
     IN /\ cacheKey' = [cacheKey EXCEPT ![i] = k]
        /\ IF ~ParsesAsUrl(Text(urls[i]))
          THEN \* new URL(url) throws
               CacheSame /\ Done(i, Caught(urls[i]), "none", "threw")
          ELSE IF ShouldSkipCache(urls[i])
          THEN CacheDrop(k) /\ Goto(i, "fetch")
          ELSE /\ CacheSame
               /\ IF CacheHit(CacheGet(cache, k))
                    THEN Done(i, Result(urls[i], CacheGet(cache, k), FALSE, 0), ReadFrom(k), "no")
                    ELSE Goto(i, "fetch")
  /\ StepFrame
  /\ UNCHANGED <<apiLog, checked, pages>>

\* the default branch: what follows handleDefaultPage's return, the
\* '## Error' test
AfterDefaultPage(i, md) ==
  IF StartsWithError(md)
    THEN Done(i, Result(urls[i], md, TRUE, IF IncludesTimeout(md) THEN 504 ELSE 500),
              "strategy", "sentinel")
    ELSE /\ results' = [results EXCEPT ![i] = Result(urls[i], md, FALSE, 0)]
         /\ src' = [src EXCEPT ![i] = "strategy"]
         /\ tpc' = [tpc EXCEPT ![i] = IF llmFilter THEN "filter" ELSE "put"]
         /\ UNCHANGED <<order, fail>>

\* the default branch: handleDefaultPage, up to newPage
DefaultOpen(i) ==
  /\ InFanout(i, "fetch")
  /\ \E opens \in BOOLEAN :
       NewPage(i, opens, "page", AfterDefaultPage(i, Md("sentinel", urls[i])))
  /\ CacheSame
  /\ RequestFrame
  /\ UNCHANGED checked

\* the default branch: handleDefaultPage from newPage to its return, the
\* finally block included, and the '## Error' test
DefaultFetch(i) ==
  /\ InFanout(i, "page")
  /\ \E text \in {"doc", "empty", "sentinel", "timeout"} :
       /\ pages' = ClosePage(pages, i)
       /\ AfterDefaultPage(i, Md(text, urls[i]))
  /\ CacheSame
  /\ RequestFrame
  /\ UNCHANGED checked

\* the default branch: applyLlmFilter, which returns its input when the model fails
DefaultFilter(i) ==
  /\ InFanout(i, "filter")
  /\ \E answered \in BOOLEAN :
       results' = [results EXCEPT ![i].md =
                     IF answered THEN ApplyLlmFilter(results[i].md) ELSE results[i].md]
  /\ tpc' = [tpc EXCEPT ![i] = "put"]
  /\ UNCHANGED <<order, src, fail>>
  /\ CacheSame
  /\ Frame

\* the default branch: if (!result.error) put, then return result
DefaultPut(i) ==
  /\ InFanout(i, "put")
  /\ IF ~results[i].error
       THEN CachePut(cacheKey[i], results[i].md, FALSE)
       ELSE CacheSame
  /\ Done(i, results[i], src[i], "no")
  /\ Frame

\* an entry's expirationTtl runs out
Expire(k) ==
  /\ CacheGet(cache, k) # Null
  /\ CacheDrop(k)
  /\ UNCHANGED <<fanReqVars, taskVars, returned, checked, pages, outsideFan>>

\* getWebsiteMarkdown(): Promise.all resolves
GwmReturn ==
  /\ phase = "fanout"
  /\ \A i \in 1..Len(urls) : tpc[i] = "done"
  /\ returned' = PromiseAll(results, order)
  /\ phase' = "returned"
  /\ CacheSame
  /\ UNCHANGED <<target, noCache, llmFilter, token, own, subpages, served, urls, taskVars,
                 checked, pages, outsideFan>>

\* processSinglePage() or crawlSubpages() builds the response
FanRespond ==
  /\ phase = "returned"
  /\ EndRequest
  /\ CacheSame
  /\ UNCHANGED outsideFan

FanInit ==
  /\ pages = NoPages
  /\ cache = {}
  /\ phase = "idle"
  /\ target = NoUrl
  /\ noCache = FALSE
  /\ llmFilter = FALSE
  /\ token = ""
  /\ own = NoOwn
  /\ subpages = FALSE
  /\ served = 0
  /\ urls = <<>>
  /\ tpc = [i \in Tasks |-> "none"]
  /\ results = [i \in Tasks |-> NoResult]
  /\ cacheKey = [i \in Tasks |-> DefaultKey(NoUrl, FALSE)]
  /\ apiLog = [i \in Tasks |-> <<>>]
  /\ order = <<>>
  /\ src = [i \in Tasks |-> "none"]
  /\ fail = [i \in Tasks |-> "no"]
  /\ returned = <<>>
  /\ preBypass = {}
  /\ errCached = {}
  /\ checked = {}

NextFanout ==
  \/ FanArrive
  \/ CrawlOpen
  \/ CrawlLinks
  \/ CrawlFail
  \/ GwmEnsure
  \/ \E i \in Tasks : RateLimit(i)
  \/ \E i \in Tasks : YouTube(i)
  \/ \E i \in Tasks : TwitterProfile(i)
  \/ \E i \in Tasks : TwitterDefault(i)
  \/ \E i \in Tasks : TwitterFallback(i)
  \/ \E i \in Tasks : RedditCache(i)
  \/ \E i \in Tasks : RedditPublic(i)
  \/ \E i \in Tasks : RedditToken(i)
  \/ \E i \in Tasks : RedditAuth(i)
  \/ \E i \in Tasks : DefaultCache(i)
  \/ \E i \in Tasks : DefaultOpen(i)
  \/ \E i \in Tasks : DefaultFetch(i)
  \/ \E i \in Tasks : DefaultFilter(i)
  \/ \E i \in Tasks : DefaultPut(i)
  \/ \E k \in {e.key : e \in cache} : Expire(k)
  \/ GwmReturn
  \/ FanRespond

\* ------------------------------------------------ interleaved requests
\* bound
MaxAlone == 1      \* requests converted in a run with interleaved arrivals

\* fetch() is entered for the request converted in the run
ArriveAlone ==
  /\ served < MaxAlone
  /\ FanArrive

\* While the request awaits the browser, a page, the cache or the limiter,
\* fetch() is entered for another request and runs up to its first await or
\* return: this.request = request, this.token = its bearer token,
\* this.llmFilter = its llmFilter parameter.  What that request does next is
\* not followed.
Overlap ==
  /\ phase \in {"crawl", "crawlPage", "gwm", "fanout"}
  /\ \E tok \in {"", "backend", "other"}, llm \in BOOLEAN :
       /\ <<tok, llm>> # <<token, llmFilter>>
       /\ token' = tok
       /\ llmFilter' = llm
  /\ CacheSame
  /\ UNCHANGED <<phase, target, noCache, own, subpages, served, urls, taskVars, returned,
                 checked, pages, outsideFan>>

NextOverlap ==
  \/ ArriveAlone
  \/ Overlap
  \/ CrawlOpen
  \/ CrawlLinks
  \/ CrawlFail
  \/ GwmEnsure
  \/ \E i \in Tasks : RateLimit(i)
  \/ \E i \in Tasks : YouTube(i)
  \/ \E i \in Tasks : TwitterProfile(i)
  \/ \E i \in Tasks : TwitterDefault(i)
  \/ \E i \in Tasks : TwitterFallback(i)
  \/ \E i \in Tasks : RedditCache(i)
  \/ \E i \in Tasks : RedditPublic(i)
  \/ \E i \in Tasks : RedditToken(i)
  \/ \E i \in Tasks : RedditAuth(i)
  \/ \E i \in Tasks : DefaultCache(i)
  \/ \E i \in Tasks : DefaultOpen(i)
  \/ \E i \in Tasks : DefaultFetch(i)
  \/ \E i \in Tasks : DefaultFilter(i)
  \/ \E i \in Tasks : DefaultPut(i)
  \/ \E k \in {e.key : e \in cache} : Expire(k)
  \/ GwmReturn
  \/ FanRespond

\* ------------------------------------------------------- the entry point
\* bound
MaxEntry == 2      \* requests sent to the Worker in a run
MaxCrawl == 1      \* of them, requests that reach crawlSubpages

\* a header that is not there, a variable that is not set
Undefined == "<undefined>"

\* the client's request
Methods == {"GET", "POST"}
AuthHeaders == {Undefined, "Bearer backend", "Bearer other"}
Secrets == {Undefined, "", "backend"}

\* the url parameter: an identifier, a string that starts with http:// but is
\* no URL, a string the pattern rejects, or NoUrl when there is none
Malformed == [site |-> "malformed", path |-> "", nocache |-> FALSE]
Rejected == [site |-> "rejected", path |-> "", nocache |-> FALSE]
Params == Seeds \cup {Malformed, Rejected, NoUrl}

\* .replace('Bearer ', '')
StripBearer(h) ==
  CASE h = "Bearer backend" -> "backend"
    [] h = "Bearer other" -> "other"
    [] OTHER -> h

\* default.fetch(): request.headers.get('Authorization')?.replace('Bearer ', '')
WorkerToken(h) == IF h = Undefined THEN Undefined ELSE StripBearer(h)

\* Browser.fetch(): request.headers.get('Authorization')?.replace('Bearer ', '') ?? ''
DoToken(h) == IF h = Undefined THEN "" ELSE StripBearer(h)

\* default.fetch(): env.BACKEND_SECURITY_TOKEN === (the header's token)
IsAuthorized(h) == BACKEND_SECURITY_TOKEN = WorkerToken(h)

\* default.fetch(): obj.fetch(request.url, { headers: request.headers }); the
\* request the object gets has the url and the headers, and the default method
Forwarded(m) == "GET"

\* Responses: status, Content-Type, the kind of body and, for an array of
\* results, the results.  Bodies: "array" of results; "object" { error, ... }
\* made of a result or of a refusal; "failure" { error: 'Failed to process
\* page', message, url } and "arrayOfFailure", the array holding one;
\* "document"; "message", an error text; "help", the help page.
Response(st, ty, body, res) == [status |-> st, type |-> ty, body |-> body, results |-> res]
NoResponse == Response(0, "", "", <<>>)

SinglePageStatusUndefaulted(result) ==
  IF result.md.text = "ratelimited" THEN 429
  ELSE IF result.error THEN result.status
  ELSE 200

\* processSinglePage(): result.error ? (result.status || 500) : 200, and 429
\* for the rate limiter's body
SinglePageStatus(result) ==
  IF result.md.text = "ratelimited" THEN 429
  ELSE IF result.error THEN (IF result.status # 0 THEN result.status ELSE 500)
  ELSE 200

MagiDocumentKept(md, call) == md

\* convertToMagiFormat(url, md): the front matter, with its doc-id from
\* uuidv4() and its created-date and updated-date from new Date(), then the
\* body.  docId stands for what one call generates: `call` names the call,
\* and no two calls generate the same.
MagiDocument(md, call) == [text |-> md.text, of |-> md.of, docId |-> call]

\* if (!result.error) result.md = convertToMagiFormat(result.url, result.md),
\* for each result of the request's response
ToMagi(res) ==
  [i \in 1..Len(res) |->
     IF res[i].error THEN res[i]
     ELSE [res[i] EXCEPT !.md = MagiDocument(res[i].md, <<served, i>>)]]

\* subpage.md.split('---\n\n')[1]: a subpage's document after its front matter
SubpageContent(r) == [r EXCEPT !.md = Md(r.md.text, r.md.of)]

\* processSinglePage(): the response made of getWebsiteMarkdown's results; for
\* a document the results field holds it
SinglePageResponse(res, ct) ==
  IF ct = "json" THEN Response(SinglePageStatus(res[1]), "json", "array", ToMagi(res))
  ELSE IF res[1].error THEN Response(SinglePageStatus(res[1]), "json", "object", <<>>)
  ELSE Response(SinglePageStatus(res[1]), "text", "document", ToMagi(res))

\* processSinglePage(): the catch
SinglePageCaught(ct) ==
  Response(500, "json", IF ct = "json" THEN "arrayOfFailure" ELSE "failure", <<>>)

\* crawlSubpages(): 429 when some result is the rate limiter's, else 200
CrawlStatus(res) ==
  IF \E i \in 1..Len(res) : res[i].error /\ res[i].md.text = "ratelimited" THEN 429 ELSE 200

\* '\n\n## Related Subpages\n'
RelatedSubpages == Result(NoUrl, Md("relatedSubpages", NoUrl), FALSE, 0)

CrawlTextAlwaysMarked(res, baseUrl) ==
  LET sections == SelectSeq(res, LAMBDA r : r.url # baseUrl /\ ~r.error)
  IN <<res[1], RelatedSubpages>> \o [k \in 1..Len(sections) |-> SubpageContent(sections[k])]

\* crawlSubpages(): the combined document, as the sequence of its parts: the
\* main result's md, then, when some result is not the base url's, the
\* marker and a section for each of those that is no error
CrawlText(res, baseUrl) ==
  LET mainResult == IF \E i \in 1..Len(res) : res[i].url = baseUrl
                      THEN res[CHOOSE i \in 1..Len(res) :
                                 res[i].url = baseUrl /\ \A j \in 1..(i - 1) : res[j].url # baseUrl]
                      ELSE res[1]
      subpageResults == SelectSeq(res, LAMBDA r : r.url # baseUrl)
      sections == SelectSeq(subpageResults, LAMBDA r : ~r.error)
  IN <<mainResult>> \o
       (IF Len(subpageResults) > 0
          THEN <<RelatedSubpages>> \o [k \in 1..Len(sections) |-> SubpageContent(sections[k])]
          ELSE <<>>)

\* crawlSubpages(): the response made of getWebsiteMarkdown's results; for a
\* document the results field holds its parts
CrawlResponse(res, baseUrl, ct) ==
  LET magiResults == ToMagi(res)
  IN IF ct = "json" THEN Response(CrawlStatus(magiResults), "json", "array", magiResults)
     ELSE Response(CrawlStatus(magiResults), "text", "document", CrawlText(magiResults, baseUrl))

\* crawlSubpages(): the catch
CrawlCaught(ct) ==
  IF ct = "json" THEN Response(500, "json", "object", <<>>)
  ELSE Response(500, "text", "message", <<>>)

\* a response is ready: the handler returns it
Answer(resp) ==
  /\ response' = resp
  /\ phase' = "answered"

\* default.fetch(), up to the call of the object's fetch or to an early return
WorkerFetch ==
  /\ phase = "idle"
  /\ served < MaxEntry
  /\ served' = served + 1
  /\ \E m \in Methods, h \in AuthHeaders :
       /\ method' = m
       /\ auth' = h
       /\ IF ~IsAuthorized(h)
            THEN /\ checked' = {0}
                 /\ \E limit \in {"passed", "exceeded", "throws"} :
                      CASE limit = "passed" -> phase' = "forwarded" /\ UNCHANGED response
                        [] limit = "exceeded" -> Answer(Response(429, "json", "object", <<>>))
                        [] limit = "throws" -> Answer(Response(500, "json", "object", <<>>))
            ELSE /\ phase' = "forwarded"
                 /\ UNCHANGED <<checked, response>>
  /\ CacheSame
  /\ UNCHANGED <<target, noCache, llmFilter, token, own, subpages, urls, taskVars, returned,
                 secret, crawls, ctype, browserAsked, pages, lifeVars, pureVars>>

\* default.fetch(): the call of the object's fetch rejects, the catch answers
WorkerCatch ==
  /\ phase = "forwarded"
  /\ Answer(Response(500, "json", "object", <<>>))
  /\ CacheSame
  /\ UNCHANGED <<target, noCache, llmFilter, token, own, subpages, served, urls, taskVars,
                 returned, checked, secret, crawls, method, auth, ctype, browserAsked, pages,
                 lifeVars, pureVars>>

\* Browser.fetch() returns before processSinglePage or crawlSubpages is called
Refuse(u, nc, llm, sub, tok, resp) ==
  /\ target' = u
  /\ noCache' = nc
  /\ llmFilter' = llm
  /\ subpages' = sub
  /\ token' = tok
  /\ own' = [token |-> tok, llmFilter |-> llm]
  /\ Answer(resp)
  /\ UNCHANGED <<urls, preBypass>>

\* Browser.fetch(), up to the call of processSinglePage or crawlSubpages or
\* to an early return.  The content-type header is read here and used when a
\* response is built: ctype gets its value in the step that builds one.
DoFetch ==
  /\ phase = "forwarded"
  /\ \E u \in Params, nc \in BOOLEAN, llm \in BOOLEAN, ct \in {"json", "text"},
        sub \in {b \in BOOLEAN : b => crawls < MaxCrawl} :
       LET tok == DoToken(auth)
           url == IF nc /\ u # NoUrl THEN WithNocache(u) ELSE u
       IN IF Forwarded(method) # "GET"
            THEN /\ Answer(Response(405, "json", "object", <<>>))
                 /\ UNCHANGED <<target, noCache, llmFilter, token, own, subpages, urls, preBypass,
                                ctype, browserAsked, crawls>>
          ELSE IF u = NoUrl
            THEN /\ Refuse(u, nc, llm, sub, tok, Response(200, "html", "help", <<>>))
                 /\ ctype' = ct
                 /\ UNCHANGED <<browserAsked, crawls>>
          ELSE IF ~IsValidUrl(Text(url))
            THEN /\ Refuse(u, nc, llm, sub, tok, Response(400, "json", "object", <<>>))
                 /\ ctype' = ct
                 /\ UNCHANGED <<browserAsked, crawls>>
          ELSE /\ browserAsked' = TRUE
               /\ \E ok \in BOOLEAN :
                    IF ok
                      THEN /\ Admit(u, nc, llm, sub, tok)
                           /\ crawls' = IF sub THEN crawls + 1 ELSE crawls
                           /\ UNCHANGED <<response, ctype>>
                      ELSE /\ Refuse(u, nc, llm, sub, tok,
                                     Response(500, "json", "object", <<>>))
                           /\ ctype' = ct
                           /\ UNCHANGED crawls
  /\ UNCHANGED <<cache, errCached, served, taskVars, returned, checked,
                 secret, method, auth, pages, lifeVars, pureVars>>

\* crawlSubpages(): no handle, or newPage throws; or goto or page.close()
\* throws: the catch answers, and the finally block closes the page if there
\* is one
CrawlThrows ==
  /\ phase \in {"crawl", "crawlPage"}
  /\ \E ct \in {"json", "text"} :
       /\ ctype' = ct
       /\ Answer(CrawlCaught(ct))
  /\ pages' = ClosePage(pages, 0)
  /\ CacheSame
  /\ UNCHANGED <<target, noCache, llmFilter, token, own, subpages, served, urls, taskVars,
                 returned, checked, secret, crawls, method, auth, browserAsked,
                 lifeVars, pureVars>>

\* processSinglePage(), from the return of getWebsiteMarkdown
ProcessSinglePage ==
  /\ phase = "returned"
  /\ ~subpages
  /\ \E thrown \in BOOLEAN, ct \in {"json", "text"} :
       /\ ctype' = ct
       /\ Answer(IF thrown THEN SinglePageCaught(ct) ELSE SinglePageResponse(returned, ct))
  /\ CacheSame
  /\ UNCHANGED <<target, noCache, llmFilter, token, own, subpages, served, urls, taskVars,
                 returned, checked, secret, crawls, method, auth, browserAsked, pages,
                 lifeVars, pureVars>>

\* crawlSubpages(), from the return of getWebsiteMarkdown: the filter pass
\* over the results that are no errors, then the response
CrawlRespond ==
  /\ phase = "returned"
  /\ subpages
  /\ \E answered \in BOOLEAN, ct \in {"json", "text"} :
       LET res == [i \in 1..Len(returned) |->
                    IF llmFilter /\ answered /\ ~returned[i].error
                                 /\ ~StartsWithError(returned[i].md)
                      THEN [returned[i] EXCEPT !.md = ApplyLlmFilter(returned[i].md)]
                      ELSE returned[i]]
       IN /\ ctype' = ct
          /\ Answer(CrawlResponse(res, urls[1], ct))
  /\ CacheSame
  /\ UNCHANGED <<target, noCache, llmFilter, token, own, subpages, served, urls, taskVars,
                 returned, checked, secret, crawls, method, auth, browserAsked, pages,
                 lifeVars, pureVars>>

\* the client has the response: the request and its locals are gone
Deliver ==
  /\ phase = "answered"
  /\ EndRequest
  /\ response' = NoResponse
  /\ method' = ""
  /\ auth' = ""
  /\ ctype' = ""
  /\ browserAsked' = FALSE
  /\ CacheSame
  /\ UNCHANGED <<secret, crawls, lifeVars, pureVars>>

EntryIdle ==
  /\ crawls = 0
  /\ method = ""
  /\ auth = ""
  /\ ctype = ""
  /\ response = NoResponse
  /\ browserAsked = FALSE

NextEntry ==
  \/ WorkerFetch
  \/ WorkerCatch
  \/ DoFetch
  \/ CrawlOpen
  \/ CrawlLinks
  \/ CrawlThrows
  \/ GwmEnsure
  \/ \E i \in Tasks : RateLimit(i)
  \/ \E i \in Tasks : YouTube(i)
  \/ \E i \in Tasks : TwitterProfile(i)
  \/ \E i \in Tasks : TwitterDefault(i)
  \/ \E i \in Tasks : TwitterFallback(i)
  \/ \E i \in Tasks : RedditCache(i)
  \/ \E i \in Tasks : RedditPublic(i)
  \/ \E i \in Tasks : RedditToken(i)
  \/ \E i \in Tasks : RedditAuth(i)
  \/ \E i \in Tasks : DefaultCache(i)
  \/ \E i \in Tasks : DefaultOpen(i)
  \/ \E i \in Tasks : DefaultFetch(i)
  \/ \E i \in Tasks : DefaultFilter(i)
  \/ \E i \in Tasks : DefaultPut(i)
  \/ \E k \in {e.key : e \in cache} : Expire(k)
  \/ GwmReturn
  \/ ProcessSinglePage
  \/ CrawlRespond
  \/ Deliver

\* ------------------------------------------------------------ the routing
\* bound
MaxTail == 4       \* pieces of an identifier's string after its origin

Origins == {"https://x.com", "https://twitter.com", "https://www.reddit.com/r/sub",
            "https://example.com"}
Pieces == {"/", "?", "1", "a", "youtube.com/watch"}

Tails == UNION {[1..n -> Pieces] : n \in 0..MaxTail}

\* getWebsiteMarkdown(): an identifier reaches the routing chain
Classify ==
  /\ routed = "none"
  /\ routed' = RouteString(ident)
  /\ UNCHANGED <<ident, magiVars, keyVars, lifeVars, fanVars, entryVars, checked, pages>>

RouteIdle ==
  /\ ident = <<"https://example.com">>
  /\ routed = "none"

NextRoute == Classify

\* ------------------------------------------------- the annotated document
\* bound
MaxBlocks == 2     \* blocks of a markdown body

\* convertToMagiFormat(): slice(0, 150), wordCount / 200, length > 1000,
\* length > 3000
DescriptionLimit == 150
WordsPerMinute == 200
SummaryAbove == 1000
EntitiesAbove == 3000

\* A markdown body, as far as the description, the reading time and the
\* directive blocks depend on it: the blocks markdown.split('\n\n') yields,
\* each with what its text starts with after trim(), its length and the
\* number of its words.  A block other than a blank one has no white space
\* at its ends; a blank one is a single space.  The empty sequence is the
\* empty string.
Blocks ==
  {b \in [kind : {"text", "heading", "fence", "table", "image"},
          len : {3, 149, 150, 151, 848, 849, 2848, 2849},
          words : {1, 2, 75, 100, 101, 150, 250}] : 2 * b.words - 1 <= b.len}
    \cup {[kind |-> "blank", len |-> 1, words |-> 0]}
Bodies == UNION {[1..n -> Blocks] : n \in 0..MaxBlocks}

RECURSIVE Sum(_)
Sum(s) == IF Len(s) = 0 THEN 0 ELSE s[1] + Sum(Tail(s))

\* markdown.length: the blocks and the '\n\n' between them
MarkdownLength(b) ==
  IF Len(b) = 0 THEN 0 ELSE Sum([i \in 1..Len(b) |-> b[i].len]) + 2 * (Len(b) - 1)

\* markdown.split(/\s+/).length: the words, and an empty string for white
\* space at the start and one for white space at the end; [''] for ''
WordCount(b) ==
  IF Len(b) = 0 THEN 1
  ELSE Sum([i \in 1..Len(b) |-> b[i].words])
         + (IF b[1].kind = "blank" THEN 1 ELSE 0)
         + (IF b[Len(b)].kind = "blank" THEN 1 ELSE 0)

\* Math.max(1, Math.round(wordCount / 200)); Math.round takes halves up
ReadingTimeMinutes(wordCount) ==
  LET rounded == (2 * wordCount + WordsPerMinute) \div (2 * WordsPerMinute)
  IN IF rounded < 1 THEN 1 ELSE rounded

\* cleanPara && !startsWith('#') && !startsWith('```') && !startsWith('|')
\* && !startsWith('!')
Describes(blk) == blk.kind \notin {"blank", "heading", "fence", "table", "image"}

\* the description: the block it was taken from (0 for none), the length of
\* the text kept by slice(0, 150), and whether '...' was appended
NoDescription == [of |-> 0, len |-> 0, ellipsis |-> FALSE]

Description(b) ==
  IF \E i \in 1..Len(b) : Describes(b[i])
    THEN LET i == CHOOSE k \in 1..Len(b) :
                    Describes(b[k]) /\ \A j \in 1..(k - 1) : ~Describes(b[j])
             kept == IF b[i].len < DescriptionLimit THEN b[i].len ELSE DescriptionLimit
         IN [of |-> i, len |-> kept, ellipsis |-> (kept = DescriptionLimit)]
    ELSE NoDescription

DirectiveBlocksFromThreshold(length) ==
  IF length >= SummaryAbove
    THEN IF length >= EntitiesAbove THEN <<"summary", "entities">> ELSE <<"summary">>
    ELSE <<>>

\* the ai-script blocks appended after the markdown
DirectiveBlocks(length) ==
  IF length > SummaryAbove
    THEN IF length > EntitiesAbove THEN <<"summary", "entities">> ELSE <<"summary">>
    ELSE <<>>

\* convertToMagiFormat(), as far as modelled
ConvertToMagiFormat(b) ==
  [description |-> Description(b),
   wordCount |-> WordCount(b),
   readingTimeMinutes |-> ReadingTimeMinutes(WordCount(b)),
   directives |-> DirectiveBlocks(MarkdownLength(b))]

NoMagi == [description |-> NoDescription, wordCount |-> 0, readingTimeMinutes |-> 0,
           directives |-> <<>>]

\* convertToMagiFormat() is called with the body
Annotate ==
  /\ magi = NoMagi
  /\ magi' = ConvertToMagiFormat(markdown)
  /\ UNCHANGED <<markdown, routeVars, keyVars, lifeVars, fanVars, entryVars, checked, pages>>

MagiIdle ==
  /\ markdown = <<>>
  /\ magi = NoMagi

NextMagi == Annotate

\* ------------------------------------------------------- the cache key
\* bound
MaxPath == 2       \* pieces of a generic page's url after its origin

\* A generic page's url, as the sequence of the pieces of its string: the
\* origin, then pieces of the path.  '-llm' is a piece a path can hold like
\* any other.
PageUrls ==
  {<<"https://example.com">> \o t : t \in UNION {[1..n -> {"/", "a", "-llm"}] : n \in 0..MaxPath}}

\* const cacheIdBase = url + (this.llmFilter ? '-llm' : '')
CacheIdBase(url, llm) == url \o (IF llm THEN <<"-llm">> ELSE <<>>)

\* const cacheKey = `Default:${cacheIdBase}`
DefaultCacheKey(url, llm) == <<"Default:">> \o CacheIdBase(url, llm)

\* the map callback builds the key of each of the two conversions
BuildKeys ==
  /\ built = <<>>
  /\ built' = [n \in 1..2 |-> DefaultCacheKey(asked[n].url, asked[n].llm)]
  /\ UNCHANGED <<asked, routeVars, magiVars, lifeVars, fanVars, entryVars, checked, pages>>

KeyIdle ==
  /\ asked = <<>>
  /\ built = <<>>


Init ==
  LifeInit /\ FanInit /\ EntryIdle /\ secret = "backend" /\ RouteIdle /\ MagiIdle /\ KeyIdle

Spec == Init /\ [][Next]_vars

\* The lifecycle with the platform's scheduling: an alarm that is set fires, and
\* an await of a request or of the alarm handler returns.  Nothing obliges a
\* client to send a request or the platform to evict the object.
SpecFair ==
  /\ Init
  /\ [][Next]_vars
  /\ WF_vars(AlarmFire)
  /\ WF_vars(AlarmFinish)
  /\ \A r \in Req :
       WF_vars(ProbePass(r) \/ ProbeFail(r) \/ LaunchOk(r) \/ LaunchFail(r)
                 \/ Cleanup(r) \/ CrawlPage(r) \/ Convert(r) \/ Respond(r))

SpecFanout == Init /\ [][NextFanout]_vars

SpecOverlap == Init /\ [][NextOverlap]_vars

EntryInit ==
  LifeInit /\ FanInit /\ EntryIdle /\ secret \in Secrets /\ RouteIdle /\ MagiIdle /\ KeyIdle

SpecEntry == EntryInit /\ [][NextEntry]_vars

RouteInit ==
  /\ LifeInit /\ FanInit /\ EntryIdle /\ secret = "backend"
  /\ ident \in {<<o>> \o t : o \in Origins, t \in Tails}
  /\ routed = "none"
  /\ MagiIdle
  /\ KeyIdle

SpecRoute == RouteInit /\ [][NextRoute]_vars

MagiInit ==
  /\ LifeInit /\ FanInit /\ EntryIdle /\ secret = "backend" /\ RouteIdle
  /\ markdown \in Bodies
  /\ magi = NoMagi
  /\ KeyIdle

SpecMagi == MagiInit /\ [][NextMagi]_vars

KeyInit ==
  /\ LifeInit /\ FanInit /\ EntryIdle /\ secret = "backend" /\ RouteIdle /\ MagiIdle
  /\ asked \in [1..2 -> [url : PageUrls, llm : BOOLEAN]]
  /\ built = <<>>

SpecKey == KeyInit /\ [][BuildKeys]_vars

\* ------------------------------------------------------------------ claims

C2_AlarmSetOnCompletion ==
  [][\A r \in Req : (pc[r] # "respond" /\ pc'[r] = "respond") => currentAlarm']_vars

C4_EnsureContract ==
  /\ [](\A r \in Req :
          /\ launches[r] <= 3
          /\ (ensured[r] = "false" => launches[r] = 3 /\ pc[r] = "respond"))
  /\ [][\A r \in Req :
          (ProbePass(r) \/ LaunchOk(r)) => (browser' # None /\ ensured'[r] = "true")]_vars

\* C5: whatever the order in which the conversions completed, what
\* getWebsiteMarkdown returns has one result per input url, and result i
\* carries urls[i].
C5_OneResultPerInputInOrder ==
  phase = "returned" =>
    /\ Len(returned) = Len(urls)
    /\ \A i \in 1..Len(urls) : returned[i].url = urls[i]

C5_Witness ==
  /\ phase = "returned" /\ Len(urls) = 2 /\ urls[1] # urls[2]
  /\ order = <<2, 1>>
  /\ returned[1].url = urls[1] /\ returned[2].url = urls[2]

\* C6 (as claimed): a conversion that threw, produced an error sentinel or was
\* rate-limited has a result flagged as an error; the step in which it fails
\* leaves the other conversions' slots alone; and getWebsiteMarkdown returns
\* a result for every url.
C6_FailureIsErrorShapedAndIsolated ==
  /\ [](\A i \in Tasks : (tpc[i] = "done" /\ fail[i] # "no") => results[i].error)
  /\ [](phase = "returned" => Len(returned) = Len(urls))
  /\ [][\A i \in Tasks : (fail[i] = "no" /\ fail'[i] # "no") =>
          \A j \in Tasks \ {i} : results'[j] = results[j] /\ tpc'[j] = tpc[j]]_vars

\* C7 (as claimed): when a request without bypass reaches the default
\* branch's cache read and an entry is stored under the url and filter mode,
\* the conversion ends in that step, without calling handleDefaultPage, and
\* its result carries the stored body.
C7_StoredEntryIsServed ==
  [][\A i \in Tasks :
       (/\ DefaultCache(i)
        /\ ~noCache
        /\ \E e \in cache : e.key = DefaultKey(urls[i], llmFilter))
         => (/\ tpc'[i] = "done"
             /\ src'[i] \in {"cache", "stale"}
             /\ \E e \in cache : e.key = DefaultKey(urls[i], llmFilter)
                                   /\ results'[i].md = e.md)]_vars

\* C8 (as claimed): in a bypass request on the default branch, when
\* handleDefaultPage is about to be called no entry is stored for the
\* identifier the client named; such a request always calls it; and no
\* request without bypass gets a body that was stored before a bypass request
\* for its identifier arrived.
C8_BypassPurgesTheIdentifier ==
  \A i \in Tasks :
    /\ (noCache /\ i = 1 /\ tpc[i] = "fetch")
          => CacheGet(cache, DefaultKey(target, llmFilter)) = Null
    /\ (noCache /\ tpc[i] = "done" /\ Route(urls[i]) = "default" /\ fail[i] # "limited")
          => src[i] = "strategy"
    /\ (~noCache /\ tpc[i] = "done" /\ Route(urls[i]) = "default")
          => src[i] # "stale"

\* C9 (as claimed): no entry of the cache was written by an attempt whose
\* result was flagged as an error.
C9_NoErrorResultCached ==
  errCached = {}

\* C10 (as claimed): in a request with nocache=true no result's markdown was
\* read from the cache.
C10_BypassNeverReadsCache ==
  \A i \in Tasks :
    (noCache /\ tpc[i] = "done") => src[i] \notin {"cache", "stale"}

\* C11 (as claimed): RATELIMITER.limit is skipped, at admission and for each
\* identifier converted, exactly when the request carries an Authorization
\* header whose bearer token equals the configured secret; a request without
\* the header is checked at both places whatever the secret is.
C11_LimiterSkippedIffBearerSecret ==
  LET carries == auth # Undefined /\ secret # Undefined /\ StripBearer(auth) = secret
  IN /\ phase # "idle" => ((0 \in checked) <=> ~carries)
     /\ \A i \in Tasks :
          tpc[i] \notin {"none", "start"} => ((i \in checked) <=> ~carries)

\* C12: for a caller whose token is not the secret, a conversion whose
\* rate-limit check fails ends with the result { md: 'Rate limit exceeded',
\* error: true, status: 429 } for its url, and the single-page response made
\* of it has status 429; the step in which the check fails starts from the
\* callback's beginning and leaves the cache alone, and afterwards the
\* conversion takes no step: no strategy is called and no cache operation is
\* made for the identifier.
C12_RateLimitedShortCircuits ==
  /\ [](\A i \in Tasks :
          fail[i] = "limited" =>
            /\ token # secret /\ i \in checked
            /\ tpc[i] = "done" /\ src[i] = "none"
            /\ results[i].url = urls[i] /\ results[i].md.text = "ratelimited"
            /\ results[i].error /\ results[i].status = 429)
  /\ [](phase = "answered" /\ ~subpages /\ fail[1] = "limited"
          /\ response.body \in {"array", "object"} => response.status = 429)
  /\ [][\A i \in Tasks :
          (fail[i] # "limited" /\ fail'[i] = "limited") =>
             (tpc[i] = "start" /\ cache' = cache)]_vars
  /\ [][\A i \in Tasks :
          (fail[i] = "limited" /\ phase' # "idle") =>
             (tpc'[i] = "done" /\ results'[i] = results[i] /\ src'[i] = "none")]_vars

C12_Witness ==
  /\ phase = "answered" /\ ~subpages /\ fail[1] = "limited"
  /\ response.status = 429 /\ response.body = "array"
  /\ response.results[1].md.text = "ratelimited"

\* C13 (as claimed): for a request whose url parameter is no valid absolute
\* http(s) URL, fetch() has not called ensureBrowser, no conversion was
\* started, and the response has status 400.
C13_InvalidUrlRejectedUntouched ==
  (target # NoUrl /\ ~ParsesAsUrl(Text(target))) =>
     /\ ~browserAsked
     /\ \A i \in Tasks : tpc[i] = "none" /\ src[i] = "none"
     /\ (phase = "answered" => response.status = 400)

\* C14 (as claimed): for a request the client sent with a method other than
\* GET, ensureBrowser is not called and no conversion is started, and unless
\* the Worker's admission check refused it (429, or 500 when the limiter
\* throws) it is answered with 405.
C14_NonGetRefused ==
  (method \notin {"", "GET"}) =>
     /\ ~browserAsked
     /\ phase \notin {"crawl", "crawlPage", "gwm", "fanout", "returned"}
     /\ (phase = "answered" /\ 0 \notin checked => response.status = 405)

\* C15: every response has one of the statuses 200, 400, 405, 429, 500, 504,
\* a response is there exactly when the request has been answered, and while
\* a request is neither answered nor waiting to be sent some step of its
\* handlers is enabled: whichever of the outcomes drawn for the limiter, the
\* browser, the strategies and the filter occurs, the handlers go on to a
\* response.
C15_AlwaysAStatusFromTheList ==
  /\ (phase = "answered") <=> (response # NoResponse)
  /\ phase = "answered" => response.status \in {200, 400, 405, 429, 500, 504}
  /\ phase \notin {"idle", "answered"} =>
       ENABLED (\/ WorkerCatch \/ DoFetch \/ CrawlOpen \/ CrawlLinks \/ CrawlThrows \/ GwmEnsure
                \/ \E i \in Tasks : \/ RateLimit(i) \/ YouTube(i) \/ TwitterProfile(i)
                                     \/ TwitterDefault(i) \/ TwitterFallback(i)
                                     \/ RedditCache(i)
                                     \/ RedditPublic(i) \/ RedditToken(i) \/ RedditAuth(i)
                                     \/ DefaultCache(i) \/ DefaultOpen(i)
                                     \/ DefaultFetch(i)
                                     \/ DefaultFilter(i) \/ DefaultPut(i)
                \/ GwmReturn \/ ProcessSinglePage \/ CrawlRespond)

C15_Witness ==
  /\ phase = "answered" /\ ~subpages /\ response.status = 504
  /\ results[1].md.text = "timeout"

\* C16 (as claimed): a single-page response made of a result whose
\* extraction failed (the generic page's error sentinel, an upstream fetch or
\* authentication failure, an exception) comes from a result flagged as an
\* error, has no 2xx status, and in text mode is a JSON error object.
C16_OkOnlyWithContent ==
  (/\ phase = "answered" /\ ~subpages /\ tpc[1] = "done"
   /\ response.body \in {"array", "object", "document"}
   /\ results[1].md.text \in {"sentinel", "timeout", "pubfail", "authfail",
                                "authlimited", "unexpected", "nobrowser"})
    => /\ results[1].error
       /\ response.status \notin 200..299
       /\ (ctype = "text" => response.body = "object")

\* C17 (as claimed): a result whose markdown is handleDefaultPage's and starts
\* with '## Error' is flagged as an error, with status 504 when the text
\* includes 'Timeout' and 500 when it does not.
C17_SentinelClassified ==
  \A i \in Tasks :
    (tpc[i] = "done" /\ src[i] = "strategy" /\ StartsWithError(results[i].md)) =>
       /\ results[i].error
       /\ results[i].status = (IF IncludesTimeout(results[i].md) THEN 504 ELSE 500)

\* C18 (as claimed): the single-page response made of a result that failed
\* because the upstream API answered 429 has status 429.
C18_UpstreamLimitIs429 ==
  (/\ phase = "answered" /\ ~subpages /\ tpc[1] = "done"
   /\ response.body \in {"array", "object", "document"}
   /\ results[1].md.text = "authlimited")
    => response.status = 429

\* C19 (as claimed): every response to a single-page request with content
\* type JSON and a valid url is a one-element array: the array of the
\* results, holding the result for the url, or the array holding the failure
\* object.
C19_JsonSinglePageIsArray ==
  (phase = "answered" /\ ctype = "json" /\ ~subpages /\ target \in Seeds) =>
     \/ /\ response.body = "array"
        /\ Len(response.results) = 1
        /\ response.results[1].url = urls[1]
     \/ response.body = "arrayOfFailure"

\* C20 (as claimed): the strategy is the first in the order video, social,
\* forum, generic whose pattern the identifier matches, and a social
\* identifier (no video one) whose last path segment, the text between the
\* last "/" of the path and the query, is all digits goes to the post
\* strategy.
C20_RoutePrecedence ==
  routed # "none" =>
    LET social == {"twitterProfile", "twitterTweet", "twitterDefault"}
        queryAt == {i \in 2..Len(ident) : ident[i] = "?"}
        path == IF queryAt = {} THEN ident
                ELSE SubSeq(ident, 1, (CHOOSE i \in queryAt : \A j \in queryAt : i <= j) - 1)
        lastSegment == IF SlashAt(path) = {} THEN <<>> ELSE LastPart(path)
    IN /\ IncludesVideo(ident) => routed = "youtube"
       /\ (~IncludesVideo(ident) /\ StartsWithSocial(ident)) => routed \in social
       /\ (~IncludesVideo(ident) /\ ~StartsWithSocial(ident) /\ IncludesForum(ident))
             => routed = "reddit"
       /\ (~IncludesVideo(ident) /\ ~StartsWithSocial(ident) /\ ~IncludesForum(ident))
             => routed = "default"
       /\ (~IncludesVideo(ident) /\ StartsWithSocial(ident) /\ AllDigits(lastSegment))
             => routed = "twitterTweet"

\* C25: the annotated document has no directive block after a body of at
\* most 1000 characters, exactly one, the summarization block, after a body
\* of more than 1000 and at most 3000 characters, and exactly two, the
\* summarization block and then the entity-extraction block, after a body of
\* more than 3000 characters.
C25_DirectivesByLength ==
  magi # NoMagi =>
    LET length == MarkdownLength(markdown)
    IN /\ length <= 1000 => magi.directives = <<>>
       /\ (length > 1000 /\ length <= 3000) => magi.directives = <<"summary">>
       /\ length > 3000 => magi.directives = <<"summary", "entities">>

C25_Witness ==
  /\ magi # NoMagi
  /\ MarkdownLength(markdown) = 3001
  /\ magi.directives = <<"summary", "entities">>

\* C26 (as claimed): readingTimeMinutes is the ceiling of wordCount / 200,
\* and at least 1.
C26_ReadingTimeIsCeiling ==
  magi # NoMagi =>
    /\ magi.readingTimeMinutes >= 1
    /\ magi.readingTimeMinutes = (magi.wordCount + 199) \div 200

\* C27 (as claimed): the description is taken from the first block that is
\* no heading, code fence, table row or image line (and not blank), it is
\* that block cut to 150 characters, and the ellipsis is appended exactly
\* when the block is longer than 150 characters.
C27_DescriptionEllipsisIffTruncated ==
  magi # NoMagi =>
    LET d == magi.description
        ok == {i \in 1..Len(markdown) :
                 markdown[i].kind \notin {"blank", "heading", "fence", "table", "image"}}
    IN IF ok = {}
         THEN d = NoDescription
         ELSE /\ d.of \in ok /\ \A j \in ok : d.of <= j
              /\ d.len = (IF markdown[d.of].len > 150 THEN 150 ELSE markdown[d.of].len)
              /\ d.ellipsis <=> (markdown[d.of].len > 150)

\* C24 (as claimed): a conversion routed to the video strategy (and let
\* through by the rate limiter) never ends with an error result.
C24_VideoNeverErrors ==
  \A i \in Tasks :
    (tpc[i] = "done" /\ Route(urls[i]) = "youtube" /\ fail[i] # "limited")
       => ~results[i].error

\* C22 (as claimed): getWebsiteMarkdown is called by a crawl with at most 11
\* urls, no two of them equal, each but the first a link kept by extractLinks
\* that lies below the seed, and the JSON response has one element per url.
C22_CrawlSeedPlusDistinctLinks ==
  (subpages /\ phase \in {"gwm", "fanout", "returned", "answered"} /\ Len(urls) > 0) =>
     /\ Len(urls) <= 11
     /\ \A i, j \in 1..Len(urls) : i # j => urls[i] # urls[j]
     /\ \A i \in 2..Len(urls) : KeptLink(urls[i], urls[1])
     /\ (phase = "answered" /\ response.body = "array")
           => Len(response.results) = Len(urls)

C21_PagesClosedOnEveryExit ==
  /\ pages[0] = "open" => phase = "crawlPage"
  /\ phase \in {"crawlPage", "gwm", "fanout", "returned"} /\ subpages => pages[0] # "none"
  /\ \A i \in Tasks :
       /\ pages[i] = "open" <=> (phase = "fanout" /\ tpc[i] \in {"page", "fallback"})
       /\ (tpc[i] = "done" /\ src[i] = "strategy" /\ results[i].md.text \in {"doc", "docF", "empty", "timeout"}
             /\ Route(urls[i]) \in {"default", "twitterDefault"})
            => pages[i] = "closed"
  /\ phase \in {"returned", "answered"} =>
       \A p \in 0..(MaxLinks + 1) : pages[p] \in {"none", "closed"}

C21_Witness ==
  /\ phase = "answered" /\ subpages
  /\ pages[0] = "closed"
  /\ pages[1] = "closed" /\ results[1].md.text = "timeout"
  /\ pages[2] = "closed" /\ results[2].md.text = "doc"

\* C28 (as claimed): the alarm handler does not call close() on the handle,
\* and does not clear it, in a step taken while some request's conversions
\* are in flight (its crawl page being read or its conversions running, both
\* after ensureBrowser returned true to it).
C28_TimerSparesHandleInUse ==
  [][(AlarmFire \/ AlarmFinish) =>
       ((\E r \in Req : pc[r] \in {"crawlPage", "convert"})
          => (alarmPc' = "idle" /\ alarmPc = "idle" /\ browser' = browser
              /\ connected' = connected))]_vars

\* C29 (as claimed): while other requests enter fetch(), the conversions of
\* the request being converted use its own token and filter flag: a
\* conversion is rate-limit-checked exactly when the request's token is not
\* the secret, the filter is applied only when the request asked for it, and
\* the cache entries it writes are under the key of its own filter mode.
C29_OwnParametersUsed ==
  /\ \A i \in Tasks :
       /\ tpc[i] \notin {"none", "start"}
            => ((i \in checked) <=> (own.token # BACKEND_SECURITY_TOKEN))
       /\ tpc[i] = "filter" => own.llmFilter
  /\ phase # "idle" => \A e \in cache : e.key.ns = "Default" => e.key.llm = own.llmFilter

\* C30 (as claimed): a request that found no handle and launched does not
\* find, when its launch resolves, that another request has set the handle
\* in the meantime (two requests that find no handle never both launch); and
\* the alarm handler clears the handle only when it is the one it called
\* close() on and that instance no longer runs.
C30_NoOrphanedInstance ==
  /\ [][(\E r \in Req : LaunchOk(r) /\ probed[r] = None) => browser = None]_vars
  /\ [][AlarmFinish => (browser = closing /\ closing \notin sessions')]_vars

\* C31 (as claimed): the orchestrator is never at rest (no request in flight,
\* the alarm handler not running) with a handle held and no alarm set; and in
\* a behaviour in which requests stop arriving it is eventually cold for
\* good: no handle, no alarm set, nothing running.
C31_EventuallyCold ==
  /\ [](((\A r \in Req : pc[r] = "idle") /\ alarmPc = "idle" /\ browser # None)
          => currentAlarm)
  /\ (<>[][\A r \in Req : ~Arrive(r)]_vars)
       => <>[](/\ browser = None
               /\ ~currentAlarm
               /\ alarmPc = "idle"
               /\ \A r \in Req : pc[r] = "idle")

\* C32 (as claimed): whenever the object is evicted and constructed again,
\* the counter the constructor reloads from storage equals the counter the
\* object had in memory when it was evicted.
C32_ReloadEqualsMemory ==
  [][Evict => keptAliveInSeconds' = keptAliveInSeconds]_vars

\* C33 (as claimed): every generic-page entry of the cache under a key with
\* the '-llm' suffix holds output of the content filter, and every one under
\* a key without it holds unfiltered text.
C33_SuffixMeansFiltered ==
  \A e \in cache :
    e.key.ns = "Default" => (e.key.llm <=> e.md.text = "docF")

\* C38 (as claimed): a crawl answered with status 200 from the results of
\* getWebsiteMarkdown has a seed page that was converted without error.
C38_CrawlOkOnlyWithSeed ==
  (phase = "answered" /\ subpages /\ response.body \in {"array", "document"}
     /\ response.status = 200)
    => ~returned[1].error

\* C40 (as claimed): when a single-page request of a caller that does not
\* hold the secret is answered, RATELIMITER.limit was called exactly once
\* for it, the Worker's and the conversion's calls counted together.
C40_OneLimiterCheckPerRequest ==
  (phase = "answered" /\ ~subpages /\ ~IsAuthorized(auth))
    => Cardinality(checked) = 1

\* C34 (as claimed): two generic-page conversions whose cache keys are the
\* same string have the same url and the same filter mode.
C34_KeyInjective ==
  (built # <<>> /\ built[1] = built[2]) => asked[1] = asked[2]

\* C39 (as claimed): no document of a response, of a single page or of a
\* crawl, is the content filter's output for text that was itself the
\* filter's output.
C39_FilterAtMostOnce ==
  phase = "answered" =>
    \A i \in 1..Len(response.results) : response.results[i].md.text # "docFF"

\* C35: no value stored in the cache has a front matter; and in a response
\* made of the results of getWebsiteMarkdown, every result that is no error
\* (in a text crawl: the seed's document, which opens the combined document)
\* carries the doc-id and dates generated by this response's call of
\* convertToMagiFormat for it, also when its body was read from the cache.
C35_CacheRawIdsFresh ==
  /\ \A e \in cache : "docId" \notin DOMAIN e.md
  /\ (phase = "answered" /\ response.body \in {"array", "document"}) =>
       \A i \in 1..Len(response.results) :
         LET r == response.results[i]
         IN (~r.error /\ (response.body = "array" \/ i = 1))
              => ("docId" \in DOMAIN r.md /\ r.md.docId = <<served, i>>)

\* the second request's body was read from the entry the first one stored
C35_Witness ==
  /\ phase = "answered" /\ served = 2 /\ src[1] = "cache"
  /\ response.status = 200 /\ response.body = "document" /\ ~subpages
  /\ response.results[1].md.docId = <<2, 1>>
  /\ \E e \in cache : e.md.text = response.results[1].md.text /\ e.md.of = urls[1]

\* C36: a forum conversion calls the public API first, and it goes on to the
\* token endpoint and the authenticated API only when the public API's answer
\* had status 429, or the x-ratelimit-remaining header "0", or was not OK
\* with rate-limit wording in its body: a conversion whose public answer
\* carried none of these returns with that answer and makes no other call.
C36_AuthOnlyAfterRateLimit ==
  \A i \in Tasks :
    LET log == apiLog[i]
    IN /\ tpc[i] \in {"redditAuth", "redditApi"}
            => /\ Len(log) >= 1
               /\ log[1].api = "public"
               /\ \/ log[1].status = 429
                  \/ log[1].remaining = "0"
                  \/ log[1].status # 200 /\ log[1].wording
       /\ \A k \in 2..Len(log) : log[k].api # "public"
       /\ tpc[i] \notin {"redditAuth", "redditApi"} => log = <<>>

\* the public API answered 200 with the remaining-requests header at "0", a
\* token was obtained, and the authenticated request is being made
C36_Witness ==
  /\ tpc[1] = "redditApi"
  /\ apiLog[1] = <<[api |-> "public", status |-> 200, remaining |-> "0", wording |-> FALSE]>>
  /\ CacheGet(cache, TokenKey) # Null

\* C37 (as claimed): a forum conversion returns the message of a 401 from
\* the authenticated API only after a retry, and retries at most once; and
\* when the 401 has come no token is left in the cache.
C37_OneRetryAfter401 ==
  [][\A i \in Tasks :
       (tpc[i] = "redditApi" /\ tpc'[i] = "done" /\ results'[i].md.text = "authexpired")
         => /\ Len(SelectSeq(apiLog[i], LAMBDA c : c.api = "auth")) = 1
            /\ CacheGet(cache', TokenKey) = Null]_vars

====
